---- MODULE Spec2Model ----
(***************************************************************************)
(* The group metadata index of weshnet (store_metadata_index.go): the      *)
(* replay engine UpdateIndex, its event handlers, its post-action and its  *)
(* query surface, as a state machine.                                      *)
(*                                                                         *)
(* Representation of Go values:                                            *)
(*   []byte            a string; "nil" is the nil slice, "" the empty      *)
(*                     non-nil slice, any other string some content        *)
(*   *T                a sequence: <<>> is the nil pointer, <<v>> points   *)
(*                     to the value v                                      *)
(*   map[string]T      a function whose DOMAIN is the set of keys present  *)
(*   error             a string; "nil" is no error                         *)
(***************************************************************************)
EXTENDS Integers, Sequences, FiniteSets, TLC

VARIABLES
    m,        \* the metadataStoreIndex object (a record of its fields)
    log,      \* the ipfs-log handed to UpdateIndex: its entries, oldest first
    entries,  \* UpdateIndex's local snapshot log.GetEntries().Slice(), kept
              \* after the return for as long as the log stays as it is
    i,        \* UpdateIndex's loop index (1-based; 0 when the loop is over)
    pc,       \* where the UpdateIndex call stands: "idle", "loop"
    ret,      \* what the last UpdateIndex call returned; "none" during a call
              \* and once the log has changed since the call
    lock,     \* the RWMutex: [writer |-> BOOLEAN, readers |-> Nat]
    m0,       \* history: the index right after the reset of the current call
    prev,     \* history: the query results before the current call, kept when
              \* the call replays the log the previous call replayed
    logged,   \* the errors the current call handed to m.logger.Error
    held,     \* the values queries returned that a caller still holds
    queries,  \* the concurrent callers of query methods: where each stands
              \* ("out", "waiting", "reading") and what it has read
    logID     \* which log the variable log is: the entries of different logs
              \* have different hashes

vars == <<m, log, entries, i, pc, ret, lock, m0, prev, logged, held, queries, logID>>

----------------------------------------------------------------------------
(* Bounds of the model *)

\* the longest log the environment builds
MaxLen == 3

\* the most keys the admin map may hold when a replay has run
MaxAdmins == 3

\* the most events the alias-key staging queue may hold in a replay
MaxQueue == 3

(* Program constants *)

\* cryptoutil.KeySize, the size of an Ed25519 public key
KeySize == 32

----------------------------------------------------------------------------
(* Byte strings *)

NilBytes == "nil"

\* byte strings of the model that are not KeySize long
ShortBytes == {"short"}

ByteLen(b) ==
    CASE b = NilBytes -> 0
      [] b = "" -> 0
      [] b \in ShortBytes -> 16
      [] OTHER -> KeySize

\* string(b): the map key a byte slice converts to (nil and empty both "")
KeyOf(b) == IF b = NilBytes THEN "" ELSE b

\* crypto.UnmarshalEd25519PublicKey fails unless the data is KeySize long
UnmarshalFails(b) == ByteLen(b) # KeySize

EmptyMap == << >>

Put(f, k, v) == (k :> v) @@ f

Ok(idx) == [m |-> idx, err |-> "nil"]

Fail(idx, e) == [m |-> idx, err |-> e]

----------------------------------------------------------------------------
(* Member / device registry *)

NewMemberDevice(member, device) == [member |-> member, device |-> device]

\* mutant: the check for an already registered device is missing
handleGroupMemberDeviceAdded_NoCheck(idx, e) ==
    IF e.type # "GroupMemberDeviceAdded" THEN Fail(idx, "ErrInvalidInput")
    ELSE IF UnmarshalFails(e.MemberPK) THEN Fail(idx, "ErrDeserialization")
    ELSE IF UnmarshalFails(e.DevicePK) THEN Fail(idx, "ErrDeserialization")
    ELSE LET memberDevice == NewMemberDevice(e.MemberPK, e.DevicePK)
             old == IF KeyOf(e.MemberPK) \in DOMAIN idx.members
                    THEN idx.members[KeyOf(e.MemberPK)] ELSE << >>
         IN  Ok([idx EXCEPT
                   !.devices = Put(@, KeyOf(e.DevicePK), memberDevice),
                   !.members = Put(@, KeyOf(e.MemberPK), Append(old, memberDevice))])

handleGroupMemberDeviceAdded(idx, e) ==
    IF e.type # "GroupMemberDeviceAdded" THEN Fail(idx, "ErrInvalidInput")
    ELSE IF UnmarshalFails(e.MemberPK) THEN Fail(idx, "ErrDeserialization")
    ELSE IF UnmarshalFails(e.DevicePK) THEN Fail(idx, "ErrDeserialization")
    ELSE IF KeyOf(e.DevicePK) \in DOMAIN idx.devices THEN Ok(idx)
    ELSE LET memberDevice == NewMemberDevice(e.MemberPK, e.DevicePK)
             old == IF KeyOf(e.MemberPK) \in DOMAIN idx.members
                    THEN idx.members[KeyOf(e.MemberPK)] ELSE << >>
         IN  Ok([idx EXCEPT
                   !.devices = Put(@, KeyOf(e.DevicePK), memberDevice),
                   !.members = Put(@, KeyOf(e.MemberPK), Append(old, memberDevice))])

\* mutant: the secret-sent mark is set whoever sent the chain key
handleGroupDeviceChainKeyAdded_AnySender(idx, e) ==
    IF e.type # "GroupDeviceChainKeyAdded" THEN Fail(idx, "ErrInvalidInput")
    ELSE IF UnmarshalFails(e.DestMemberPK) THEN Fail(idx, "ErrDeserialization")
    ELSE IF UnmarshalFails(e.DevicePK) THEN Fail(idx, "ErrDeserialization")
    ELSE Ok([idx EXCEPT !.sentSecrets = @ \cup {KeyOf(e.DestMemberPK)}])

handleGroupDeviceChainKeyAdded(idx, e) ==
    IF e.type # "GroupDeviceChainKeyAdded" THEN Fail(idx, "ErrInvalidInput")
    ELSE IF UnmarshalFails(e.DestMemberPK) THEN Fail(idx, "ErrDeserialization")
    ELSE IF UnmarshalFails(e.DevicePK) THEN Fail(idx, "ErrDeserialization")
    ELSE IF idx.ownMemberDevice.device = e.DevicePK
         THEN Ok([idx EXCEPT !.sentSecrets = @ \cup {KeyOf(e.DestMemberPK)}])
         ELSE Ok(idx)

\* mutant: an unknown device resolves to no member without an error
unsafeGetMemberByDevice_NoMissing(idx, publicKeyBytes) ==
    IF ByteLen(publicKeyBytes) # KeySize
    THEN [member |-> NilBytes, err |-> "ErrInvalidInput"]
    ELSE IF KeyOf(publicKeyBytes) \notin DOMAIN idx.devices
    THEN [member |-> NilBytes, err |-> "nil"]
    ELSE [member |-> idx.devices[KeyOf(publicKeyBytes)].member, err |-> "nil"]

unsafeGetMemberByDevice(idx, publicKeyBytes) ==
    IF ByteLen(publicKeyBytes) # KeySize
    THEN [member |-> NilBytes, err |-> "ErrInvalidInput"]
    ELSE IF KeyOf(publicKeyBytes) \notin DOMAIN idx.devices
    THEN [member |-> NilBytes, err |-> "ErrMissingInput"]
    ELSE [member |-> idx.devices[KeyOf(publicKeyBytes)].member, err |-> "nil"]

getMemberByDevice(idx, devicePublicKey) ==
    unsafeGetMemberByDevice(idx, devicePublicKey)

getDevicesForMember(idx, pk) ==
    IF KeyOf(pk) \notin DOMAIN idx.members
    THEN [devices |-> << >>, err |-> "ErrInvalidInput"]
    ELSE LET mds == idx.members[KeyOf(pk)]
         IN  [devices |-> [k \in 1..Len(mds) |-> mds[k].device], err |-> "nil"]

MemberCount(idx) == Cardinality(DOMAIN idx.members)

DeviceCount(idx) == Cardinality(DOMAIN idx.devices)

----------------------------------------------------------------------------
(* Group roster *)

handleGroupJoined(idx, evt) ==
    IF evt.type # "AccountGroupJoined" THEN Fail(idx, "ErrInvalidInput")
    \* evt.Group.PublicKey dereferences evt.Group without a nil check
    ELSE IF evt.Group = << >> THEN Fail(idx, "panic")
    ELSE IF KeyOf(evt.Group[1].PublicKey) \in DOMAIN idx.groups THEN Ok(idx)
    ELSE Ok([idx EXCEPT !.groups =
                Put(@, KeyOf(evt.Group[1].PublicKey),
                    [group |-> evt.Group, state |-> "Joined"])])

\* mutant: a leave event replaces the record of a newer join
handleGroupLeft_Overwrites(idx, evt) ==
    IF evt.type # "AccountGroupLeft" THEN Fail(idx, "ErrInvalidInput")
    ELSE Ok([idx EXCEPT !.groups =
                Put(@, KeyOf(evt.GroupPK), [group |-> << >>, state |-> "Left"])])

handleGroupLeft(idx, evt) ==
    IF evt.type # "AccountGroupLeft" THEN Fail(idx, "ErrInvalidInput")
    ELSE IF KeyOf(evt.GroupPK) \in DOMAIN idx.groups THEN Ok(idx)
    ELSE Ok([idx EXCEPT !.groups =
                Put(@, KeyOf(evt.GroupPK), [group |-> << >>, state |-> "Left"])])

----------------------------------------------------------------------------
(* Contact-request knobs *)

\* mutant: the knob is set whether or not a newer event has set it
handleContactRequestDisabled_Overwrites(idx, evt) ==
    IF evt.type # "AccountContactRequestDisabled" THEN Fail(idx, "ErrInvalidInput")
    ELSE Ok([idx EXCEPT !.contactRequestEnabled = <<FALSE>>])

handleContactRequestDisabled(idx, evt) ==
    IF idx.contactRequestEnabled # << >> THEN Ok(idx)
    ELSE IF evt.type # "AccountContactRequestDisabled" THEN Fail(idx, "ErrInvalidInput")
    ELSE Ok([idx EXCEPT !.contactRequestEnabled = <<FALSE>>])

handleContactRequestEnabled(idx, evt) ==
    IF idx.contactRequestEnabled # << >> THEN Ok(idx)
    ELSE IF evt.type # "AccountContactRequestEnabled" THEN Fail(idx, "ErrInvalidInput")
    ELSE Ok([idx EXCEPT !.contactRequestEnabled = <<TRUE>>])

handleContactRequestReferenceReset(idx, evt) ==
    IF evt.type # "AccountContactRequestReferenceReset" THEN Fail(idx, "ErrInvalidInput")
    ELSE IF idx.contactRequestSeed # NilBytes THEN Ok(idx)
    ELSE Ok([idx EXCEPT !.contactRequestSeed = evt.PublicRendezvousSeed])

----------------------------------------------------------------------------
(* Contact state machine *)

\* the public key of the group the secret store derives for a contact
ContactGroupPK(contactPK) ==
    CASE contactPK = "c1" -> "gc1"
      [] contactPK = "c2" -> "gc2"
      [] OTHER -> "gcx"

\* secretStore.GetGroupForContact: fails for the contacts the store cannot resolve
GetGroupForContact(store, contactPK) ==
    IF contactPK \in store.failing
    THEN [group |-> << >>, err |-> "ErrInternal"]
    ELSE [group |-> <<[PublicKey |-> ContactGroupPK(contactPK), GroupType |-> "Contact"]>>,
          err |-> "nil"]

\* ac points to the record stored under the key ac of idx.contacts: within one
\* replay a key of idx.contacts is bound once, so the key names the object
registerContactFromGroupPK(idx, ac) ==
    IF idx.group.GroupType # "Account" THEN Fail(idx, "ErrGroupInvalidType")
    ELSE IF UnmarshalFails(idx.contacts[ac].contact.PK) THEN Fail(idx, "ErrDeserialization")
    ELSE LET r == GetGroupForContact(idx.secretStore, idx.contacts[ac].contact.PK)
         IN  IF r.err # "nil" THEN Fail(idx, "ErrOrbitDBOpen")
             ELSE Ok([idx EXCEPT !.contactsFromGroupPK =
                         Put(@, KeyOf(r.group[1].PublicKey), ac)])

\* the shared tail of the contact handlers: store a new record, then register it
newContact(idx, pk, state, metadata, seed) ==
    LET ac == [state |-> state,
               contact |-> [PK |-> pk, Metadata |-> metadata,
                            PublicRendezvousSeed |-> seed]]
    IN  registerContactFromGroupPK(
            [idx EXCEPT !.contacts = Put(@, KeyOf(pk), ac)], KeyOf(pk))

\* mutant: an older event's fields replace the fields already set
fillContact_Overwrites(idx, k, metadata, seed) ==
    Ok([idx EXCEPT !.contacts[k].contact.Metadata = metadata,
                   !.contacts[k].contact.PublicRendezvousSeed = seed])

\* fill the optional fields of an existing record where they are nil
fillContact(idx, k, metadata, seed) ==
    LET cur == idx.contacts[k].contact
    IN  Ok([idx EXCEPT
              !.contacts[k].contact.Metadata =
                  IF cur.Metadata = NilBytes THEN metadata ELSE @,
              !.contacts[k].contact.PublicRendezvousSeed =
                  IF cur.PublicRendezvousSeed = NilBytes THEN seed ELSE @])

handleContactRequestOutgoingEnqueued(idx, evt) ==
    IF evt.type # "AccountContactRequestOutgoingEnqueued" \/ evt.Contact = << >>
    THEN Fail(idx, "ErrInvalidInput")
    ELSE LET c == evt.Contact[1]
             k == KeyOf(c.PK)
             crm == idx.contactRequestMetadata
         IN  IF k \in DOMAIN idx.contacts
             THEN fillContact(idx, k, c.Metadata, c.PublicRendezvousSeed)
             ELSE newContact(
                    [idx EXCEPT !.contactRequestMetadata =
                        IF k \notin DOMAIN crm \/ ByteLen(crm[k]) = 0
                        THEN Put(crm, k, evt.OwnMetadata) ELSE crm],
                    c.PK, "ToRequest", c.Metadata, c.PublicRendezvousSeed)

handleContactRequestOutgoingSent(idx, evt) ==
    IF evt.type # "AccountContactRequestOutgoingSent" THEN Fail(idx, "ErrInvalidInput")
    ELSE IF KeyOf(evt.ContactPK) \in DOMAIN idx.contacts THEN Ok(idx)
    ELSE newContact(idx, evt.ContactPK, "Added", NilBytes, NilBytes)

handleContactRequestIncomingReceived(idx, evt) ==
    IF evt.type # "AccountContactRequestIncomingReceived" THEN Fail(idx, "ErrInvalidInput")
    ELSE IF KeyOf(evt.ContactPK) \in DOMAIN idx.contacts
    THEN fillContact(idx, KeyOf(evt.ContactPK), evt.ContactMetadata,
                     evt.ContactRendezvousSeed)
    ELSE newContact(idx, evt.ContactPK, "Received", evt.ContactMetadata,
                    evt.ContactRendezvousSeed)

handleContactRequestIncomingDiscarded(idx, evt) ==
    IF evt.type # "AccountContactRequestIncomingDiscarded" THEN Fail(idx, "ErrInvalidInput")
    ELSE IF KeyOf(evt.ContactPK) \in DOMAIN idx.contacts THEN Ok(idx)
    ELSE newContact(idx, evt.ContactPK, "Discarded", NilBytes, NilBytes)

handleContactRequestIncomingAccepted(idx, evt) ==
    IF evt.type # "AccountContactRequestIncomingAccepted" THEN Fail(idx, "ErrInvalidInput")
    ELSE IF KeyOf(evt.ContactPK) \in DOMAIN idx.contacts THEN Ok(idx)
    ELSE newContact(idx, evt.ContactPK, "Added", NilBytes, NilBytes)

\* mutant: the block event replaces an existing record (last write wins)
handleContactBlocked_Overwrites(idx, evt) ==
    IF evt.type # "AccountContactBlocked" THEN Fail(idx, "ErrInvalidInput")
    ELSE newContact(idx, evt.ContactPK, "Blocked", NilBytes, NilBytes)

handleContactBlocked(idx, evt) ==
    IF evt.type # "AccountContactBlocked" THEN Fail(idx, "ErrInvalidInput")
    ELSE IF KeyOf(evt.ContactPK) \in DOMAIN idx.contacts THEN Ok(idx)
    ELSE newContact(idx, evt.ContactPK, "Blocked", NilBytes, NilBytes)

handleContactUnblocked(idx, evt) ==
    IF evt.type # "AccountContactUnblocked" THEN Fail(idx, "ErrInvalidInput")
    ELSE IF KeyOf(evt.ContactPK) \in DOMAIN idx.contacts THEN Ok(idx)
    ELSE newContact(idx, evt.ContactPK, "Removed", NilBytes, NilBytes)

handleContactAliasKeyAdded(idx, evt) ==
    IF evt.type # "ContactAliasKeyAdded" THEN Fail(idx, "ErrInvalidInput")
    ELSE Ok([idx EXCEPT !.eventsContactAddAliasKey = Append(@, evt)])

----------------------------------------------------------------------------
(* Service tokens *)

\* ServiceToken.TokenID: the id a token is registered under
TokenID(token) == token.id

\* mutant: an added token replaces a tombstone
handleAccountServiceTokenAdded_OverTombstone(idx, evt) ==
    IF evt.type # "AccountServiceTokenAdded" THEN Fail(idx, "ErrInvalidInput")
    ELSE IF /\ TokenID(evt.ServiceToken[1]) \in DOMAIN idx.serviceTokens
            /\ idx.serviceTokens[TokenID(evt.ServiceToken[1])] # << >>
         THEN Ok(idx)
    ELSE Ok([idx EXCEPT !.serviceTokens =
                Put(@, TokenID(evt.ServiceToken[1]), evt.ServiceToken)])

\* evt.ServiceToken is not tested for nil before its TokenID method is called;
\* the events of the model carry a token
handleAccountServiceTokenAdded(idx, evt) ==
    IF evt.type # "AccountServiceTokenAdded" THEN Fail(idx, "ErrInvalidInput")
    ELSE IF TokenID(evt.ServiceToken[1]) \in DOMAIN idx.serviceTokens THEN Ok(idx)
    ELSE Ok([idx EXCEPT !.serviceTokens =
                Put(@, TokenID(evt.ServiceToken[1]), evt.ServiceToken)])

handleAccountServiceTokenRemoved(idx, evt) ==
    IF evt.type # "AccountServiceTokenRemoved" THEN Fail(idx, "ErrInvalidInput")
    ELSE Ok([idx EXCEPT !.serviceTokens = Put(@, evt.TokenID, << >>)])

----------------------------------------------------------------------------
(* Admins, payloads, credentials *)

\* crypto.UnmarshalEd25519PublicKey returns a pointer to a newly allocated key:
\* admins is a map keyed by that pointer (crypto.PubKey is an interface), so a
\* key is found in the map only by its address. The admin map never shrinks,
\* so the number of keys it holds names an address no key of the map has.
UnmarshalAdminKey(idx, raw) == [addr |-> Cardinality(idx.admins) + 1, raw |-> raw]

handleMultiMemberInitialMember(idx, e) ==
    IF e.type # "MultiMemberGroupInitialMemberAnnounced" THEN Fail(idx, "ErrInvalidInput")
    ELSE IF UnmarshalFails(e.MemberPK) THEN Fail(idx, "ErrDeserialization")
    ELSE LET pk == UnmarshalAdminKey(idx, e.MemberPK)
         IN  IF pk \in idx.admins THEN Fail(idx, "ErrInternal")
             ELSE Ok([idx EXCEPT !.admins = @ \cup {pk}])

\* mutant: the grant is applied, the grantee becomes an admin
handleMultiMemberGrantAdminRole_Grants(idx, event) ==
    Ok([idx EXCEPT !.admins = @ \cup {UnmarshalAdminKey(idx, event.GranteeMemberPK)}])

handleMultiMemberGrantAdminRole(idx, event) == Ok(idx)

handleGroupMetadataPayloadSent(idx, event) == Ok(idx)

handleAccountVerifiedCredentialRegistered(idx, e) ==
    IF e.type # "AccountVerifiedCredentialRegistered" THEN Fail(idx, "ErrInvalidInput")
    ELSE Ok([idx EXCEPT !.verifiedCredentials = Append(@, e)])

----------------------------------------------------------------------------
(* Post-action: alias-key reconciliation *)

RECURSIVE sentAliasesFrom(_, _)
\* the loop of postHandlerSentAliases from the k-th staged event on
sentAliasesFrom(idx, k) ==
    IF k > Len(idx.eventsContactAddAliasKey)
    THEN Ok([idx EXCEPT !.eventsContactAddAliasKey = << >>])
    ELSE LET evt == idx.eventsContactAddAliasKey[k]
             r == unsafeGetMemberByDevice(idx, evt.DevicePK)
         IN  IF r.err # "nil" THEN Fail(idx, "couldn't get member for device")
             ELSE IF r.member = idx.ownMemberDevice.member
             THEN sentAliasesFrom([idx EXCEPT !.ownAliasKeySent = TRUE], k + 1)
             ELSE IF ByteLen(evt.AliasPK) # KeySize THEN Fail(idx, "ErrInvalidInput")
             ELSE sentAliasesFrom([idx EXCEPT !.otherAliasKey = evt.AliasPK], k + 1)

postHandlerSentAliases(idx) == sentAliasesFrom(idx, 1)

----------------------------------------------------------------------------
(* Query surface *)

listContacts(idx) ==
    [k \in DOMAIN idx.contacts |->
        [state |-> idx.contacts[k].state,
         contact |-> [PK |-> idx.contacts[k].contact.PK,
                      PublicRendezvousSeed |-> idx.contacts[k].contact.PublicRendezvousSeed,
                      Metadata |-> idx.contacts[k].contact.Metadata]]]

listVerifiedCredentials(idx) == idx.verifiedCredentials

\* the lists below are built by ranging over a map: their order is unspecified,
\* so each is modelled by the collection of its elements
listMembers(idx) == {idx.members[k][1].member : k \in DOMAIN idx.members}

listDevices(idx) == {idx.devices[k].device : k \in DOMAIN idx.devices}

areSecretsAlreadySent(idx, pk) == KeyOf(pk) \in idx.sentSecrets

listServiceTokens(idx) ==
    {idx.serviceTokens[k][1] : k \in {t \in DOMAIN idx.serviceTokens :
                                          idx.serviceTokens[t] # << >>}}

\* one element per key of the admin map: how many list elements carry each raw key
listAdmins(idx) ==
    [r \in {a.raw : a \in idx.admins} |-> Cardinality({a \in idx.admins : a.raw = r})]

listOtherMembersDevices(idx) ==
    UNION {{idx.members[k][n].device : n \in 1..Len(idx.members[k])} :
              k \in {x \in DOMAIN idx.members : x # KeyOf(idx.ownMemberDevice.member)}}

contactRequestsEnabled(idx) ==
    idx.contactRequestEnabled # << >> /\ idx.contactRequestEnabled[1]

contactRequestsSeed(idx) == idx.contactRequestSeed

getContact(idx, pk) ==
    IF KeyOf(pk) \notin DOMAIN idx.contacts
    THEN [contact |-> << >>, err |-> "ErrMissingMapKey"]
    ELSE [contact |-> <<idx.contacts[KeyOf(pk)]>>, err |-> "nil"]

----------------------------------------------------------------------------
(* Replay engine *)

newMetadataIndex(g, md, store) ==
    [members |-> EmptyMap, devices |-> EmptyMap, admins |-> {},
     sentSecrets |-> {}, handledEvents |-> {}, contacts |-> EmptyMap,
     contactsFromGroupPK |-> EmptyMap, groups |-> EmptyMap,
     serviceTokens |-> EmptyMap, contactRequestMetadata |-> EmptyMap,
     verifiedCredentials |-> << >>, contactRequestSeed |-> NilBytes,
     contactRequestEnabled |-> << >>, eventsContactAddAliasKey |-> << >>,
     ownAliasKeySent |-> FALSE, otherAliasKey |-> NilBytes,
     group |-> g, ownMemberDevice |-> md, secretStore |-> store]

\* the event types newMetadataIndex registers a handler for
HandledTypes ==
    {"AccountContactBlocked", "AccountContactRequestDisabled",
     "AccountContactRequestEnabled", "AccountContactRequestIncomingAccepted",
     "AccountContactRequestIncomingDiscarded", "AccountContactRequestIncomingReceived",
     "AccountContactRequestOutgoingEnqueued", "AccountContactRequestOutgoingSent",
     "AccountContactRequestReferenceReset", "AccountContactUnblocked",
     "AccountGroupJoined", "AccountGroupLeft", "ContactAliasKeyAdded",
     "GroupDeviceChainKeyAdded", "GroupMemberDeviceAdded",
     "MultiMemberGroupAdminRoleGranted", "MultiMemberGroupInitialMemberAnnounced",
     "AccountServiceTokenAdded", "AccountServiceTokenRemoved",
     "GroupMetadataPayloadSent", "AccountVerifiedCredentialRegistered"}

\* m.eventHandlers[t]: every registered type has exactly one handler
eventHandlers(idx, t, event) ==
    CASE t = "AccountContactBlocked" -> handleContactBlocked(idx, event)
      [] t = "AccountContactRequestDisabled" -> handleContactRequestDisabled(idx, event)
      [] t = "AccountContactRequestEnabled" -> handleContactRequestEnabled(idx, event)
      [] t = "AccountContactRequestIncomingAccepted" ->
             handleContactRequestIncomingAccepted(idx, event)
      [] t = "AccountContactRequestIncomingDiscarded" ->
             handleContactRequestIncomingDiscarded(idx, event)
      [] t = "AccountContactRequestIncomingReceived" ->
             handleContactRequestIncomingReceived(idx, event)
      [] t = "AccountContactRequestOutgoingEnqueued" ->
             handleContactRequestOutgoingEnqueued(idx, event)
      [] t = "AccountContactRequestOutgoingSent" ->
             handleContactRequestOutgoingSent(idx, event)
      [] t = "AccountContactRequestReferenceReset" ->
             handleContactRequestReferenceReset(idx, event)
      [] t = "AccountContactUnblocked" -> handleContactUnblocked(idx, event)
      [] t = "AccountGroupJoined" -> handleGroupJoined(idx, event)
      [] t = "AccountGroupLeft" -> handleGroupLeft(idx, event)
      [] t = "ContactAliasKeyAdded" -> handleContactAliasKeyAdded(idx, event)
      [] t = "GroupDeviceChainKeyAdded" -> handleGroupDeviceChainKeyAdded(idx, event)
      [] t = "GroupMemberDeviceAdded" -> handleGroupMemberDeviceAdded(idx, event)
      [] t = "MultiMemberGroupAdminRoleGranted" ->
             handleMultiMemberGrantAdminRole(idx, event)
      [] t = "MultiMemberGroupInitialMemberAnnounced" ->
             handleMultiMemberInitialMember(idx, event)
      [] t = "AccountServiceTokenAdded" -> handleAccountServiceTokenAdded(idx, event)
      [] t = "AccountServiceTokenRemoved" -> handleAccountServiceTokenRemoved(idx, event)
      [] t = "GroupMetadataPayloadSent" -> handleGroupMetadataPayloadSent(idx, event)
      [] t = "AccountVerifiedCredentialRegistered" ->
             handleAccountVerifiedCredentialRegistered(idx, event)

\* openMetadataEntry: a payload that does not parse is an error; any other
\* payload decodes to its event, tagged with the event's type
openMetadataEntry(e, g) ==
    IF e.payload.type = "malformed"
    THEN [EventType |-> "", event |-> e.payload, err |-> "ErrInvalidInput"]
    ELSE [EventType |-> e.payload.type, event |-> e.payload, err |-> "nil"]

\* mutant: the reset keeps the handled-events set
resetState_KeepsHandled(idx) ==
    [idx EXCEPT !.contacts = EmptyMap, !.contactsFromGroupPK = EmptyMap,
                !.groups = EmptyMap, !.serviceTokens = EmptyMap,
                !.contactRequestMetadata = EmptyMap,
                !.contactRequestEnabled = << >>,
                !.contactRequestSeed = NilBytes,
                !.verifiedCredentials = << >>]

\* mutant: the reset also clears the member and device registries, the admin
\* set and the secret-sent set
resetState_ClearsRegistries(idx) ==
    [idx EXCEPT !.contacts = EmptyMap, !.contactsFromGroupPK = EmptyMap,
                !.groups = EmptyMap, !.serviceTokens = EmptyMap,
                !.contactRequestMetadata = EmptyMap,
                !.contactRequestEnabled = << >>,
                !.contactRequestSeed = NilBytes,
                !.verifiedCredentials = << >>,
                !.handledEvents = {},
                !.members = EmptyMap, !.devices = EmptyMap,
                !.admins = {}, !.sentSecrets = {}]

\* mutant: the reset leaves the verified credentials of the last call
resetState_KeepsCredentials(idx) ==
    [idx EXCEPT !.contacts = EmptyMap, !.contactsFromGroupPK = EmptyMap,
                !.groups = EmptyMap, !.serviceTokens = EmptyMap,
                !.contactRequestMetadata = EmptyMap,
                !.contactRequestEnabled = << >>,
                !.contactRequestSeed = NilBytes,
                !.handledEvents = {}]

\* "Resetting state": the fields UpdateIndex clears before it folds the log
resetState(idx) ==
    [idx EXCEPT !.contacts = EmptyMap, !.contactsFromGroupPK = EmptyMap,
                !.groups = EmptyMap, !.serviceTokens = EmptyMap,
                !.contactRequestMetadata = EmptyMap,
                !.contactRequestEnabled = << >>,
                !.contactRequestSeed = NilBytes,
                !.verifiedCredentials = << >>,
                !.handledEvents = {}]

Logged(e, msg, err) == <<[entry |-> e.hash, msg |-> msg, err |-> err]>>

\* mutant: an entry that does not decode is marked handled all the same
loopBody_MarksUndecodable(idx, e) ==
    LET d == openMetadataEntry(e, idx.group)
    IN  IF d.err # "nil"
        THEN [m |-> [idx EXCEPT !.handledEvents = @ \cup {e.hash}],
              logs |-> Logged(e, "unable to open metadata entry", d.err),
              panic |-> FALSE]
        ELSE IF d.EventType \notin HandledTypes
        THEN [m |-> [idx EXCEPT !.handledEvents = @ \cup {e.hash}],
              logs |-> Logged(e, "handler for event type not found", "nil"),
              panic |-> FALSE]
        ELSE LET r == eventHandlers(idx, d.EventType, d.event)
             IN  [m |-> [r.m EXCEPT !.handledEvents = @ \cup {e.hash}],
                  logs |-> IF r.err # "nil"
                           THEN Logged(e, "unable to handle event", r.err)
                           ELSE << >>,
                  panic |-> FALSE]

\* one iteration of UpdateIndex's loop, for entry e: the index it leaves, what
\* it logs, and whether a handler panicked
loopBody(idx, e) ==
    IF idx.group.GroupType # "Account" /\ e.hash \in idx.handledEvents
    THEN [m |-> idx, logs |-> << >>, panic |-> FALSE]
    ELSE LET d == openMetadataEntry(e, idx.group)
         IN  IF d.err # "nil"
             THEN [m |-> idx, logs |-> Logged(e, "unable to open metadata entry", d.err),
                   panic |-> FALSE]
             ELSE IF d.EventType \notin HandledTypes
             THEN [m |-> [idx EXCEPT !.handledEvents = @ \cup {e.hash}],
                   logs |-> Logged(e, "handler for event type not found", "nil"),
                   panic |-> FALSE]
             ELSE LET r == eventHandlers(idx, d.EventType, d.event)
                  IN  IF r.err = "panic"
                      THEN [m |-> r.m, logs |-> << >>, panic |-> TRUE]
                      ELSE [m |-> [r.m EXCEPT !.handledEvents = @ \cup {e.hash}],
                            logs |-> IF r.err # "nil"
                                     THEN Logged(e, "unable to handle event", r.err)
                                     ELSE << >>,
                            panic |-> FALSE]

\* mutant: the failure of a post-action is dropped
postIndexActions_Swallows(idx) == Ok(postHandlerSentAliases(idx).m)

\* m.postIndexActions, run in order; the first failure is wrapped and returned
postIndexActions(idx) ==
    LET r == postHandlerSentAliases(idx)
    IN  IF r.err # "nil" THEN Fail(r.m, "ErrInternal") ELSE Ok(r.m)

RECURSIVE foldEntries(_, _, _)
\* the loop of UpdateIndex over es[1..k], from the last index down to the first
foldEntries(idx, es, k) ==
    IF k = 0 THEN idx ELSE foldEntries(loopBody(idx, es[k]).m, es, k - 1)

\* a whole UpdateIndex call on index idx with snapshot es: [m, err]
UpdateIndex(idx, es) == postIndexActions(foldEntries(resetState(idx), es, Len(es)))

\* everything a caller can observe through the query methods
QuerySurface(idx) ==
    [listContacts |-> listContacts(idx),
     getContact |-> [k \in DOMAIN idx.contacts |-> getContact(idx, k)],
     listMembers |-> listMembers(idx),
     listDevices |-> listDevices(idx),
     listAdmins |-> listAdmins(idx),
     listServiceTokens |-> listServiceTokens(idx),
     listVerifiedCredentials |-> listVerifiedCredentials(idx),
     contactRequestsEnabled |-> contactRequestsEnabled(idx),
     contactRequestsSeed |-> contactRequestsSeed(idx),
     memberOf |-> [d \in DOMAIN idx.devices |-> getMemberByDevice(idx, d)],
     devicesOf |-> [k \in DOMAIN idx.members |-> getDevicesForMember(idx, k)],
     areSecretsAlreadySent |-> idx.sentSecrets,
     listOtherMembersDevices |-> listOtherMembersDevices(idx),
     memberCount |-> MemberCount(idx),
     deviceCount |-> DeviceCount(idx)]

----------------------------------------------------------------------------
(* The inputs of the model *)

OwnMemberDevice == NewMemberDevice("mA", "dA1")

Group(t) == [PublicKey |-> "gpk", GroupType |-> t]

\* a secret store that resolves every contact, and one that fails for c2
WorkingStore == [failing |-> {}]

FailingStore == [failing |-> {"c2"}]

Contact(pk, md, seed) == [PK |-> pk, Metadata |-> md, PublicRendezvousSeed |-> seed]

OutgoingEnqueued(pk, md, seed) ==
    [type |-> "AccountContactRequestOutgoingEnqueued",
     Contact |-> <<Contact(pk, md, seed)>>, OwnMetadata |-> "own"]

OutgoingEnqueuedNoContact ==
    [type |-> "AccountContactRequestOutgoingEnqueued",
     Contact |-> << >>, OwnMetadata |-> "own"]

IncomingReceived(pk, md, seed) ==
    [type |-> "AccountContactRequestIncomingReceived", ContactPK |-> pk,
     ContactMetadata |-> md, ContactRendezvousSeed |-> seed]

ContactEvent(t, pk) == [type |-> t, ContactPK |-> pk]

\* the (metadata, seed) pairs the contact events of the model carry
OptionalFields ==
    {<<NilBytes, NilBytes>>, <<"md1", NilBytes>>, <<NilBytes, "seed1">>,
     <<"md2", "seed2">>}

SimpleContactTypes ==
    {"AccountContactRequestOutgoingSent", "AccountContactRequestIncomingDiscarded",
     "AccountContactRequestIncomingAccepted", "AccountContactBlocked",
     "AccountContactUnblocked"}

ContactPayloads ==
    {OutgoingEnqueued("c1", f[1], f[2]) : f \in OptionalFields}
    \cup {IncomingReceived("c1", f[1], f[2]) :
               f \in OptionalFields \ {<<NilBytes, NilBytes>>}}
    \cup {ContactEvent(t, "c1") : t \in SimpleContactTypes}
    \cup {OutgoingEnqueued("c2", "md2", NilBytes),
          ContactEvent("AccountContactRequestOutgoingSent", "c2"),
          OutgoingEnqueuedNoContact}

GroupJoined(g) ==
    [type |-> "AccountGroupJoined",
     Group |-> <<[PublicKey |-> g, GroupType |-> "MultiMember"]>>]

\* a join event that decodes and carries no group descriptor
GroupJoinedNoGroup == [type |-> "AccountGroupJoined", Group |-> << >>]

GroupLeft(g) == [type |-> "AccountGroupLeft", GroupPK |-> g]

ServiceToken(id) == [id |-> id, Token |-> "token"]

ServiceTokenAdded(id) ==
    [type |-> "AccountServiceTokenAdded", ServiceToken |-> <<ServiceToken(id)>>]

ServiceTokenRemoved(id) == [type |-> "AccountServiceTokenRemoved", TokenID |-> id]

ContactRequestEnabled == [type |-> "AccountContactRequestEnabled"]

ContactRequestDisabled == [type |-> "AccountContactRequestDisabled"]

ReferenceReset(seed) ==
    [type |-> "AccountContactRequestReferenceReset", PublicRendezvousSeed |-> seed]

MemberDeviceAdded(member, device) ==
    [type |-> "GroupMemberDeviceAdded", MemberPK |-> member, DevicePK |-> device]

MemberPKs == {"mA", "mB"}

DevicePKs == {"dA1", "dB1"}

\* every device under every member, and two events with a key of the wrong size
DevicePayloads ==
    {MemberDeviceAdded(mb, d) : mb \in MemberPKs, d \in DevicePKs}
    \cup {MemberDeviceAdded("mA", "short"), MemberDeviceAdded("short", "dB1")}

InitialMemberAnnounced(member) ==
    [type |-> "MultiMemberGroupInitialMemberAnnounced", MemberPK |-> member]

ContactAliasKeyAdded(device, alias) ==
    [type |-> "ContactAliasKeyAdded", DevicePK |-> device, AliasPK |-> alias]

\* a payload that openMetadataEntry cannot parse
Malformed == [type |-> "malformed"]

\* an event the decoder knows and the index registers no handler for
GroupReplicating == [type |-> "GroupReplicating"]

\* a mix of all registries: two devices, an entry that does not decode, one
\* whose handler fails, an admin, an alias key, a contact, a token and an event
\* without a handler
MixedPayloads ==
    {MemberDeviceAdded("mA", "dA1"), MemberDeviceAdded("mB", "dB1"),
     Malformed, MemberDeviceAdded("mA", "short"),
     InitialMemberAnnounced("mA"), ContactAliasKeyAdded("dB1", "alias1"),
     ContactEvent("AccountContactRequestOutgoingSent", "c1"),
     ServiceTokenAdded("t1"), GroupReplicating}

VerifiedCredentialRegistered(id) ==
    [type |-> "AccountVerifiedCredentialRegistered", Identifier |-> id]

\* events whose records, tokens, seeds and credentials the queries hand out
AliasingPayloads ==
    {ContactEvent("AccountContactRequestOutgoingSent", "c1"),
     OutgoingEnqueued("c1", "md1", "seed1"),
     ServiceTokenAdded("t1"), ReferenceReset("seed1"),
     VerifiedCredentialRegistered("v1")}

GroupPKs == {"g1", "g2"}

TokenIDs == {"t1", "t2"}

\* the seeds a reset event carries: absent, empty, and two proper seeds
ResetSeeds == {NilBytes, "", "seed1", "seed2"}

AccountPayloads ==
    {GroupJoined(g) : g \in GroupPKs} \cup {GroupLeft(g) : g \in GroupPKs}
    \cup {ServiceTokenAdded(t) : t \in TokenIDs}
    \cup {ServiceTokenRemoved(t) : t \in TokenIDs}
    \cup {ContactRequestEnabled, ContactRequestDisabled}
    \cup {ReferenceReset(sd) : sd \in ResetSeeds}

----------------------------------------------------------------------------
(* The state machine *)

Unlocked == [writer |-> FALSE, readers |-> 0]

\* the goroutines that call query methods while UpdateIndex may be running
Callers == {"r1", "r2"}

\* a caller that is not inside a query method
Out == [pc |-> "out", seen |-> << >>]

\* the query methods of the index
QueryMethods ==
    {"getMemberByDevice", "getDevicesForMember", "MemberCount", "DeviceCount",
     "listContacts", "listVerifiedCredentials", "listMembers", "listDevices",
     "areSecretsAlreadySent", "listServiceTokens", "listAdmins",
     "listOtherMembersDevices", "contactRequestsEnabled", "contactRequestsSeed",
     "getContact"}

\* mutant: the query methods read the index without a lease
Leases_QueriesUnlocked(op) ==
    IF op = "UpdateIndex" THEN "write" ELSE "none"

\* the lease of m.lock a method takes on entry and gives back with its
\* deferred unlock: the query methods RLock, UpdateIndex Locks, and the
\* handlers, the post-action and their helpers take none
Leases(op) ==
    CASE op \in QueryMethods -> "read"
      [] op = "UpdateIndex" -> "write"
      [] OTHER -> "none"

\* the methods of the index that the handler of event type t calls
HandlerCalls(t) ==
    IF t \in {"AccountContactRequestOutgoingEnqueued", "AccountContactRequestOutgoingSent",
              "AccountContactRequestIncomingReceived",
              "AccountContactRequestIncomingDiscarded",
              "AccountContactRequestIncomingAccepted",
              "AccountContactBlocked", "AccountContactUnblocked"}
    THEN {"registerContactFromGroupPK"}
    ELSE {}

\* mutant: the post-action resolves members through the locking getter
PostActionCalls_LockingGetter == {"getMemberByDevice"}

\* the methods of the index that postHandlerSentAliases calls
PostActionCalls == {"unsafeGetMemberByDevice"}

\* sync.RWMutex, which is not reentrant: a read lease is granted while no
\* writer holds the lock, the write lease while nobody holds it
Grantable(lease) ==
    CASE lease = "none" -> TRUE
      [] lease = "read" -> ~lock.writer
      [] lease = "write" -> lock = Unlocked

\* the code called does not wait for a lease that cannot be granted
CanRun(calls) == \A c \in calls : Grantable(Leases(c))

\* the calls the next step of the running UpdateIndex makes
NextCalls ==
    IF i = 0 THEN PostActionCalls
    ELSE LET d == openMetadataEntry(entries[i], m.group)
         IN  IF d.err = "nil" /\ d.EventType \in HandledTypes
             THEN HandlerCalls(d.EventType)
             ELSE {}

NoPrev == [same |-> FALSE, q |-> << >>]

\* an UpdateIndex call has returned and the index is as the call left it
Done == pc = "idle" /\ ret \notin {"none", "panic"}

InitWith(groupTypes, stores) ==
    /\ m \in {newMetadataIndex(Group(t), OwnMemberDevice, st) :
                 t \in groupTypes, st \in stores}
    /\ log = << >>
    /\ entries = << >>
    /\ i = 0
    /\ pc = "idle"
    /\ ret = "none"
    /\ lock = Unlocked
    /\ m0 = m
    /\ prev = NoPrev
    /\ logged = << >>
    /\ held = {}
    /\ queries = [q \in Callers |-> Out]
    /\ logID = 0

\* the log changes: what the model remembers of the last call is dropped
Forget ==
    /\ entries' = << >>
    /\ ret' = "none"
    /\ logged' = << >>
    /\ m0' = m
    /\ prev' = NoPrev

\* the environment appends an entry to the log; the entry's hash names the
\* log and the entry's place in it
AppendEntry(payloads) ==
    /\ pc = "idle"
    /\ Len(log) < MaxLen
    /\ \E p \in payloads : log' = Append(log, [hash |-> <<logID, Len(log) + 1>>, payload |-> p])
    /\ Forget
    /\ UNCHANGED <<m, i, pc, lock, held, queries, logID>>

CountType(es, t) == Cardinality({k \in 1..Len(es) : es[k].payload.type = t})

\* UpdateIndex, lines 61-76: take the write lock, snapshot the log, reset
UpdateIndexBegin ==
    /\ pc = "idle"
    /\ lock = Unlocked
    /\ Cardinality(m.admins)
         + CountType(log, "MultiMemberGroupInitialMemberAnnounced") <= MaxAdmins
    /\ Len(m.eventsContactAddAliasKey)
         + CountType(log, "ContactAliasKeyAdded") <= MaxQueue
    /\ lock' = [lock EXCEPT !.writer = TRUE]
    /\ entries' = log
    /\ m' = resetState(m)
    /\ i' = Len(log)
    /\ pc' = "loop"
    /\ ret' = "none"
    /\ m0' = m'
    /\ prev' = IF Done
               THEN [same |-> TRUE, q |-> <<QuerySurface(m)>>]
               ELSE NoPrev
    /\ logged' = << >>
    /\ held' = {}
    /\ UNCHANGED <<log, queries, logID>>

\* UpdateIndex, lines 77-116: one iteration of the loop, newest entry first
UpdateIndexEntry ==
    /\ pc = "loop"
    /\ i >= 1
    /\ CanRun(NextCalls)
    /\ LET r == loopBody(m, entries[i])
       IN  IF r.panic
           THEN /\ pc' = "panicked"
                /\ lock' = Unlocked
                /\ ret' = "panic"
                /\ UNCHANGED <<m, i, logged>>
           ELSE /\ m' = r.m
                /\ i' = i - 1
                /\ logged' = logged \o r.logs
                /\ UNCHANGED <<pc, lock, ret>>
    /\ UNCHANGED <<log, entries, m0, prev, held, queries, logID>>

\* UpdateIndex, lines 118-124: the post-actions, the return, the deferred unlock
UpdateIndexReturn ==
    /\ pc = "loop"
    /\ i = 0
    /\ CanRun(NextCalls)
    /\ LET r == postIndexActions(m)
       IN  /\ m' = r.m
           /\ ret' = r.err
    /\ pc' = "idle"
    /\ lock' = Unlocked
    /\ UNCHANGED <<log, entries, i, m0, prev, logged, held, queries, logID>>

\* the call after a call that returned is handed another log, which starts
\* empty
NewLog ==
    /\ Done
    /\ log # << >>
    /\ log' = << >>
    /\ logID' = 1 - logID
    /\ Forget
    /\ UNCHANGED <<m, i, pc, lock, held, queries>>

Replay == UpdateIndexBegin \/ UpdateIndexEntry \/ UpdateIndexReturn

(* Contact lifecycle events in an Account group with a working secret store *)

InitContacts == InitWith({"Account"}, {WorkingStore})

NextContacts == AppendEntry(ContactPayloads) \/ Replay

SpecContacts == InitContacts /\ [][NextContacts]_vars

(* Roster, service-token and knob events in an Account group *)

InitAccount == InitWith({"Account"}, {WorkingStore})

NextAccount == AppendEntry(AccountPayloads) \/ Replay

SpecAccount == InitAccount /\ [][NextAccount]_vars

(* Events of every registry, in an Account group and in a MultiMember group,
   over a log that grows between the calls *)

Init == InitWith({"Account", "MultiMember"}, {WorkingStore})

Next == AppendEntry(MixedPayloads) \/ Replay

Spec == Init /\ [][Next]_vars

(* Alias-key events and the devices that send them *)

AliasKeyPayloads ==
    {MemberDeviceAdded("mA", "dA1"), MemberDeviceAdded("mB", "dB1"),
     ContactAliasKeyAdded("dA1", "aliasA"), ContactAliasKeyAdded("dB1", "aliasB"),
     ContactAliasKeyAdded("dB1", "short"), Malformed}

InitAliasKeys == InitWith({"MultiMember"}, {WorkingStore})

NextAliasKeys == AppendEntry(AliasKeyPayloads) \/ Replay

SpecAliasKeys == InitAliasKeys /\ [][NextAliasKeys]_vars

(* Alias-key events with keys of the key size, over several logs *)

SizedAliasKeyPayloads ==
    {MemberDeviceAdded("mA", "dA1"), MemberDeviceAdded("mB", "dB1"),
     ContactAliasKeyAdded("dA1", "aliasA"), ContactAliasKeyAdded("dB1", "aliasB"),
     ContactAliasKeyAdded("dB1", "aliasC")}

InitAliasLogs == InitWith({"MultiMember"}, {WorkingStore})

NextAliasLogs == AppendEntry(SizedAliasKeyPayloads) \/ NewLog \/ Replay

SpecAliasLogs == InitAliasLogs /\ [][NextAliasLogs]_vars

(* Query methods called while UpdateIndex runs *)

\* each caller runs any of the query methods; what it reads is taken to be
\* the whole query surface

\* a caller enters a query method, which asks for its lease
QueryCall(q) ==
    /\ queries[q].pc = "out"
    /\ queries' = [queries EXCEPT ![q].pc = "waiting"]
    /\ UNCHANGED <<m, log, entries, i, pc, ret, lock, m0, prev, logged, held, logID>>

\* the query method gets its lease and reads the index
QueryRead(q) ==
    /\ queries[q].pc = "waiting"
    /\ CanRun(QueryMethods)
    /\ lock' = IF "read" \in {Leases(op) : op \in QueryMethods}
               THEN [lock EXCEPT !.readers = @ + 1]
               ELSE lock
    /\ queries' = [queries EXCEPT ![q] = [pc |-> "reading", seen |-> <<QuerySurface(m)>>]]
    /\ UNCHANGED <<m, log, entries, i, pc, ret, m0, prev, logged, held, logID>>

\* the query method returns what it read; its deferred unlock runs
QueryReturn(q) ==
    /\ queries[q].pc = "reading"
    /\ lock' = IF "read" \in {Leases(op) : op \in QueryMethods}
               THEN [lock EXCEPT !.readers = @ - 1]
               ELSE lock
    /\ queries' = [queries EXCEPT ![q] = Out]
    /\ UNCHANGED <<m, log, entries, i, pc, ret, m0, prev, logged, held, logID>>

ConcurrentQuery == \E q \in Callers : QueryCall(q) \/ QueryRead(q) \/ QueryReturn(q)

\* events that go through a handler with a helper call, a handler without
\* one and the post-action
LeasePayloads ==
    {MemberDeviceAdded("mB", "dB1"), ContactAliasKeyAdded("dB1", "alias1"),
     ContactEvent("AccountContactRequestOutgoingSent", "c1")}

InitLeases == InitWith({"Account"}, {WorkingStore})

NextLeases == AppendEntry(LeasePayloads) \/ Replay \/ ConcurrentQuery

SpecLeases == InitLeases /\ [][NextLeases]_vars

\* the goroutine inside UpdateIndex keeps running; sync.RWMutex admits the
\* readers that wait when a writer unlocks, so no reader waits forever; a
\* reader that has its lease returns
FairLeases ==
    /\ WF_vars(Replay)
    /\ \A q \in Callers : SF_vars(QueryRead(q)) /\ WF_vars(QueryReturn(q))

SpecLeasesFair == SpecLeases /\ FairLeases

(* Callers of the query methods, which keep and write to what they are given.
   A caller holds one returned value at a time; the values a call before the
   last reset returned no longer belong to the index, so a replay drops them. *)

Readable == pc = "idle" /\ ~lock.writer

\* getContact returns the *AccountContact stored in m.contacts
QueryGetContact ==
    /\ Readable
    /\ \E k \in DOMAIN m.contacts :
          /\ getContact(m, k).err = "nil"
          /\ held' = {[via |-> "getContact", key |-> k]}
    /\ UNCHANGED <<m, log, entries, i, pc, ret, lock, m0, prev, logged, queries, logID>>

\* listContacts returns new records whose byte slices are those of the index
QueryListContacts ==
    /\ Readable
    /\ \E k \in DOMAIN listContacts(m) :
          held' = {[via |-> "listContacts", key |-> k]}
    /\ UNCHANGED <<m, log, entries, i, pc, ret, lock, m0, prev, logged, queries, logID>>

\* contactRequestsSeed returns the slice m.contactRequestSeed
QueryContactRequestsSeed ==
    /\ Readable
    /\ held' = {[via |-> "contactRequestsSeed", key |-> ""]}
    /\ UNCHANGED <<m, log, entries, i, pc, ret, lock, m0, prev, logged, queries, logID>>

\* listServiceTokens returns a new slice of the *ServiceToken of the index
QueryListServiceTokens ==
    /\ Readable
    /\ \E t \in listServiceTokens(m) :
          held' = {[via |-> "listServiceTokens", key |-> TokenID(t)]}
    /\ UNCHANGED <<m, log, entries, i, pc, ret, lock, m0, prev, logged, queries, logID>>

\* listVerifiedCredentials returns the slice m.verifiedCredentials
QueryListVerifiedCredentials ==
    /\ Readable
    /\ held' = {[via |-> "listVerifiedCredentials", key |-> ""]}
    /\ UNCHANGED <<m, log, entries, i, pc, ret, lock, m0, prev, logged, queries, logID>>

\* what a write into the bytes of slice b leaves: nothing to write to when the
\* slice is nil or empty
Scribbled(b) == IF ByteLen(b) = 0 THEN b ELSE "scribbled"

\* the caller assigns the state field of the record getContact returned
CallerWritesContact ==
    /\ \E r \in held, st \in {"Blocked", "Removed"} :
          /\ r.via = "getContact"
          /\ m' = [m EXCEPT !.contacts[r.key].state = st]
    /\ held' = {}
    /\ UNCHANGED <<log, entries, i, pc, ret, lock, m0, prev, logged, queries, logID>>

\* the caller assigns the state of a record listContacts returned (its own
\* copy), or writes into the bytes of the record's metadata
CallerWritesListedContact ==
    /\ \E r \in held :
          /\ r.via = "listContacts"
          /\ \/ m' = m
             \/ m' = [m EXCEPT !.contacts[r.key].contact.Metadata = Scribbled(@)]
    /\ held' = {}
    /\ UNCHANGED <<log, entries, i, pc, ret, lock, m0, prev, logged, queries, logID>>

\* the caller writes into the bytes of the seed contactRequestsSeed returned
CallerWritesSeed ==
    /\ \E r \in held : r.via = "contactRequestsSeed"
    /\ m' = [m EXCEPT !.contactRequestSeed = Scribbled(@)]
    /\ held' = {}
    /\ UNCHANGED <<log, entries, i, pc, ret, lock, m0, prev, logged, queries, logID>>

\* the caller assigns a field of a token listServiceTokens returned
CallerWritesToken ==
    /\ \E r \in held :
          /\ r.via = "listServiceTokens"
          /\ m' = [m EXCEPT !.serviceTokens[r.key] = <<[@[1] EXCEPT !.Token = "forged"]>>]
    /\ held' = {}
    /\ UNCHANGED <<log, entries, i, pc, ret, lock, m0, prev, logged, queries, logID>>

\* the caller assigns a field of the first event of the slice
\* listVerifiedCredentials returned
CallerWritesCredential ==
    /\ \E r \in held : r.via = "listVerifiedCredentials"
    /\ m.verifiedCredentials # << >>
    /\ m' = [m EXCEPT !.verifiedCredentials[1].Identifier = "forged"]
    /\ held' = {}
    /\ UNCHANGED <<log, entries, i, pc, ret, lock, m0, prev, logged, queries, logID>>

Queries ==
    \/ QueryGetContact \/ QueryListContacts \/ QueryContactRequestsSeed
    \/ QueryListServiceTokens \/ QueryListVerifiedCredentials

CallerWrites ==
    \/ CallerWritesContact \/ CallerWritesListedContact \/ CallerWritesSeed
    \/ CallerWritesToken \/ CallerWritesCredential

InitAliasing == InitWith({"Account"}, {WorkingStore})

NextAliasing == AppendEntry(AliasingPayloads) \/ Replay \/ Queries \/ CallerWrites

SpecAliasing == InitAliasing /\ [][NextAliasing]_vars

(* Lookup queries, called with keys that are registered and keys that are not *)

LookupPayloads ==
    {MemberDeviceAdded("mA", "dA1"), MemberDeviceAdded("mA", "dA2"),
     MemberDeviceAdded("mB", "dA1"),
     ContactEvent("AccountContactRequestOutgoingSent", "c1")}

LookupDevices == {"dA1", "dA2", "dB1"}

LookupMembers == {"mA", "mB"}

LookupContacts == {"c1", "c2"}

\* a caller calls one lookup query and keeps what it returns
Lookup ==
    /\ Readable
    /\ \/ \E d \in LookupDevices :
             held' = {[via |-> "getMemberByDevice", key |-> d,
                       result |-> getMemberByDevice(m, d)]}
       \/ \E k \in LookupMembers :
             held' = {[via |-> "getDevicesForMember", key |-> k,
                       result |-> getDevicesForMember(m, k)]}
       \/ \E k \in LookupContacts :
             held' = {[via |-> "getContact", key |-> k, result |-> getContact(m, k)]}
       \/ held' = {[via |-> "MemberCount", key |-> "", result |-> MemberCount(m)]}
       \/ held' = {[via |-> "DeviceCount", key |-> "", result |-> DeviceCount(m)]}
    /\ UNCHANGED <<m, log, entries, i, pc, ret, lock, m0, prev, logged, queries, logID>>

InitLookups == InitWith({"Account"}, {WorkingStore})

NextLookups == AppendEntry(LookupPayloads) \/ Replay \/ Lookup

SpecLookups == InitLookups /\ [][NextLookups]_vars

(* Contact events in an Account group whose secret store fails for a contact *)

StorePayloads ==
    {ContactEvent("AccountContactRequestOutgoingSent", "c1"),
     ContactEvent("AccountContactRequestOutgoingSent", "c2"),
     OutgoingEnqueued("c1", "md1", "seed1"), OutgoingEnqueued("c2", "md2", NilBytes),
     ContactEvent("AccountContactBlocked", "c2")}

InitStores == InitWith({"Account"}, {WorkingStore, FailingStore})

NextStores == AppendEntry(StorePayloads) \/ Replay

SpecStores == InitStores /\ [][NextStores]_vars

(* Admin events and payload events, in an Account group and in a MultiMember
   group *)

AdminRoleGranted(device, grantee) ==
    [type |-> "MultiMemberGroupAdminRoleGranted", DevicePK |-> device,
     GranteeMemberPK |-> grantee]

MetadataPayloadSent(device) ==
    [type |-> "GroupMetadataPayloadSent", DevicePK |-> device, Message |-> "msg"]

AdminPayloads ==
    {InitialMemberAnnounced("mA"), AdminRoleGranted("dA1", "mB"),
     MetadataPayloadSent("dA1"), MemberDeviceAdded("mB", "dB1")}

InitAdmins == InitWith({"Account", "MultiMember"}, {WorkingStore})

NextAdmins == AppendEntry(AdminPayloads) \/ Replay

SpecAdmins == InitAdmins /\ [][NextAdmins]_vars

(* Entries that decode, with and without handler or handler error, and
   entries that do not, over several logs *)

HandledPayloads ==
    {MemberDeviceAdded("mA", "dA1"), MemberDeviceAdded("mA", "short"),
     GroupReplicating, Malformed}

InitHandled == InitWith({"Account", "MultiMember"}, {WorkingStore})

NextHandled == AppendEntry(HandledPayloads) \/ NewLog \/ Replay

SpecHandled == InitHandled /\ [][NextHandled]_vars

(* The registries that outlive a replay, over several logs *)

DeviceChainKeyAdded(device, dest) ==
    [type |-> "GroupDeviceChainKeyAdded", DevicePK |-> device, DestMemberPK |-> dest]

RegistryPayloads ==
    {MemberDeviceAdded("mA", "dA1"), MemberDeviceAdded("mB", "dA1"),
     InitialMemberAnnounced("mA"), DeviceChainKeyAdded("dA1", "mB")}

InitRegistries == InitWith({"MultiMember"}, {WorkingStore})

NextRegistries == AppendEntry(RegistryPayloads) \/ NewLog \/ Replay

SpecRegistries == InitRegistries /\ [][NextRegistries]_vars

(* Chain-key events of the own device and of other devices, over several
   logs *)

ChainKeyPayloads ==
    {DeviceChainKeyAdded("dA1", "mA"), DeviceChainKeyAdded("dA1", "mB"),
     DeviceChainKeyAdded("dB1", "mB"), DeviceChainKeyAdded("dA1", "short"),
     DeviceChainKeyAdded("short", "mB"), MemberDeviceAdded("mB", "dB1")}

InitSecrets == InitWith({"MultiMember"}, {WorkingStore})

NextSecrets == AppendEntry(ChainKeyPayloads) \/ NewLog \/ Replay

SpecSecrets == InitSecrets /\ [][NextSecrets]_vars

(* Events of every per-replay structure, over several logs *)

PerReplayPayloads ==
    {ContactEvent("AccountContactRequestOutgoingSent", "c1"), GroupJoined("g1"),
     ServiceTokenAdded("t1"), ContactRequestEnabled, ReferenceReset("seed1"),
     VerifiedCredentialRegistered("v1")}

InitPerReplay == InitWith({"Account", "MultiMember"}, {WorkingStore})

NextPerReplay == AppendEntry(PerReplayPayloads) \/ NewLog \/ Replay

SpecPerReplay == InitPerReplay /\ [][NextPerReplay]_vars

(* Events with and without their required field, in an Account group *)

RequiredFieldPayloads ==
    {OutgoingEnqueued("c1", "md1", NilBytes), OutgoingEnqueuedNoContact,
     GroupJoined("g1"), GroupJoinedNoGroup, ServiceTokenAdded("t1")}

InitRequiredFields == InitWith({"Account"}, {WorkingStore})

NextRequiredFields == AppendEntry(RequiredFieldPayloads) \/ Replay

SpecRequiredFields == InitRequiredFields /\ [][NextRequiredFields]_vars

(* GroupMemberDeviceAdded events in a MultiMember group, over several logs *)

InitDevices == InitWith({"MultiMember"}, {WorkingStore})

NextDevices == AppendEntry(DevicePayloads) \/ NewLog \/ Replay

SpecDevices == InitDevices /\ [][NextDevices]_vars

----------------------------------------------------------------------------
(* What the log says, read off the entries without running a handler *)

\* the entries the current call has folded so far (all of them once it returned)
Processed == (i + 1)..Len(entries)

\* a call is in its loop, or has returned and the log is still the one it replayed
Replaying == pc = "loop" \/ Done

Max(S) == CHOOSE x \in S : \A y \in S : y <= x

ContactLifecycleTypes ==
    SimpleContactTypes \cup {"AccountContactRequestOutgoingEnqueued",
                             "AccountContactRequestIncomingReceived"}

\* a contact lifecycle event that carries its required fields
WellFormedContactEvent(p) ==
    /\ p.type \in ContactLifecycleTypes
    /\ p.type = "AccountContactRequestOutgoingEnqueued" => p.Contact # << >>

EventContactPK(p) ==
    IF p.type = "AccountContactRequestOutgoingEnqueued" THEN p.Contact[1].PK
    ELSE p.ContactPK

EventMetadata(p) ==
    CASE p.type = "AccountContactRequestOutgoingEnqueued" -> p.Contact[1].Metadata
      [] p.type = "AccountContactRequestIncomingReceived" -> p.ContactMetadata
      [] OTHER -> NilBytes

EventSeed(p) ==
    CASE p.type = "AccountContactRequestOutgoingEnqueued" ->
             p.Contact[1].PublicRendezvousSeed
      [] p.type = "AccountContactRequestIncomingReceived" -> p.ContactRendezvousSeed
      [] OTHER -> NilBytes

InducedState(t) ==
    CASE t = "AccountContactRequestOutgoingEnqueued" -> "ToRequest"
      [] t = "AccountContactRequestOutgoingSent" -> "Added"
      [] t = "AccountContactRequestIncomingReceived" -> "Received"
      [] t = "AccountContactRequestIncomingDiscarded" -> "Discarded"
      [] t = "AccountContactRequestIncomingAccepted" -> "Added"
      [] t = "AccountContactBlocked" -> "Blocked"
      [] t = "AccountContactUnblocked" -> "Removed"

\* the folded entries that are well-formed lifecycle events of contact pk
EventsOf(pk) ==
    {k \in Processed : /\ WellFormedContactEvent(entries[k].payload)
                       /\ EventContactPK(entries[k].payload) = pk}

ContactPKs == {"c1", "c2"}

AccountWithWorkingStore ==
    m.group.GroupType = "Account" /\ m.secretStore = WorkingStore

\* C1: in an Account group with a working secret store, at every point of a
\* replay and once it has returned, a contact has a record exactly when the folded entries
\* hold a well-formed lifecycle event for it, and the record's state is the one
\* induced by the newest such event: no older event changes it.
C1_StateOfNewestEvent ==
    (AccountWithWorkingStore /\ Replaying) =>
        \A pk \in ContactPKs :
            IF EventsOf(pk) = {}
            THEN KeyOf(pk) \notin DOMAIN m.contacts
            ELSE /\ KeyOf(pk) \in DOMAIN m.contacts
                 /\ m.contacts[KeyOf(pk)].state =
                        InducedState(entries[Max(EventsOf(pk))].payload.type)

\* a replay has returned whose log blocks a contact and then unblocks it, so
\* the newest event (the unblock) decides: the contact is Removed
C1_Witness ==
    /\ Done
    /\ AccountWithWorkingStore
    /\ \E a, b \in EventsOf("c1") :
          /\ a < b
          /\ entries[a].payload.type = "AccountContactBlocked"
          /\ entries[b].payload.type = "AccountContactUnblocked"
          /\ b = Max(EventsOf("c1"))
    /\ m.contacts["c1"].state = "Removed"

\* the folded events of pk that carry a metadata / a rendezvous seed
WithMetadata(pk) == {k \in EventsOf(pk) : EventMetadata(entries[k].payload) # NilBytes}

WithSeed(pk) == {k \in EventsOf(pk) : EventSeed(entries[k].payload) # NilBytes}

\* C2: at every point of a replay and after it, a contact's metadata is the
\* metadata of the newest folded event for it that carries one (absent when
\* none does), and likewise its public rendezvous seed: a field once set is not
\* overwritten by an older event.
C2_OptionalFieldsOfNewestCarrier ==
    Replaying =>
        \A pk \in ContactPKs :
            KeyOf(pk) \in DOMAIN m.contacts =>
                /\ m.contacts[KeyOf(pk)].contact.Metadata =
                       IF WithMetadata(pk) = {} THEN NilBytes
                       ELSE EventMetadata(entries[Max(WithMetadata(pk))].payload)
                /\ m.contacts[KeyOf(pk)].contact.PublicRendezvousSeed =
                       IF WithSeed(pk) = {} THEN NilBytes
                       ELSE EventSeed(entries[Max(WithSeed(pk))].payload)

\* a replay has returned whose newest event for c1 is OutgoingSent and whose
\* older events are an enqueued request carrying (md2, seed2) and, older still,
\* one carrying only md1: the record is Added with md2 and seed2
C2_Witness ==
    /\ Done
    /\ Len(entries) = 3
    /\ entries[3].payload = ContactEvent("AccountContactRequestOutgoingSent", "c1")
    /\ entries[2].payload = OutgoingEnqueued("c1", "md2", "seed2")
    /\ entries[1].payload = OutgoingEnqueued("c1", "md1", NilBytes)
    /\ m.contacts["c1"].state = "Added"
    /\ m.contacts["c1"].contact.Metadata = "md2"
    /\ m.contacts["c1"].contact.PublicRendezvousSeed = "seed2"

----------------------------------------------------------------------------
(* Roster, service tokens, knobs *)

EventGroupPK(p) == IF p.type = "AccountGroupJoined" THEN p.Group[1].PublicKey ELSE p.GroupPK

\* the folded join and leave events of group g
RosterEventsOf(g) ==
    {k \in Processed : /\ entries[k].payload.type \in {"AccountGroupJoined", "AccountGroupLeft"}
                       /\ EventGroupPK(entries[k].payload) = g}

\* C3: at every point of a replay and after it, a group has a roster record
\* exactly when the folded entries hold a join or leave event for it, and the
\* record is Joined or Left as the newest such event says.
C3_RosterOfNewestEvent ==
    Replaying =>
        \A g \in GroupPKs :
            IF RosterEventsOf(g) = {}
            THEN KeyOf(g) \notin DOMAIN m.groups
            ELSE /\ KeyOf(g) \in DOMAIN m.groups
                 /\ m.groups[KeyOf(g)].state =
                        IF entries[Max(RosterEventsOf(g))].payload.type = "AccountGroupJoined"
                        THEN "Joined" ELSE "Left"

\* a replay has returned whose log leaves g1 and later joins it again, the
\* join being the newest roster event of g1: g1 is Joined
C3_Witness ==
    /\ Done
    /\ \E a, b \in RosterEventsOf("g1") :
          /\ a < b
          /\ entries[a].payload.type = "AccountGroupLeft"
          /\ entries[b].payload.type = "AccountGroupJoined"
          /\ b = Max(RosterEventsOf("g1"))
    /\ m.groups["g1"].state = "Joined"

AddedIn(t) == {k \in Processed : entries[k].payload = ServiceTokenAdded(t)}

RemovedIn(t) == {k \in Processed : entries[k].payload = ServiceTokenRemoved(t)}

\* C4: at every point of a replay and after it, listServiceTokens holds the
\* token of id t exactly when the folded entries add t and none of them removes
\* t, wherever the removal stands in the log.
C4_TombstoneWins ==
    Replaying =>
        \A t \in TokenIDs :
            (ServiceToken(t) \in listServiceTokens(m))
                <=> (AddedIn(t) # {} /\ RemovedIn(t) = {})

\* a replay has returned whose log removes t1 and later adds it (the add is
\* newer than the removal) and also adds t2: only t2 is listed
C4_Witness ==
    /\ Done
    /\ \E a \in AddedIn("t1"), r \in RemovedIn("t1") : r < a
    /\ AddedIn("t2") # {}
    /\ listServiceTokens(m) = {ServiceToken("t2")}

KnobEvents ==
    {k \in Processed : entries[k].payload \in {ContactRequestEnabled, ContactRequestDisabled}}

\* C5: at every point of a replay and after it, contactRequestsEnabled is true
\* exactly when the folded entries hold an Enabled or Disabled event and the
\* newest of them is Enabled.
C5_EnabledOfNewestEvent ==
    Replaying =>
        (contactRequestsEnabled(m)
            <=> (KnobEvents # {}
                 /\ entries[Max(KnobEvents)].payload = ContactRequestEnabled))

\* a replay has returned whose newest knob event enables contact requests and
\* an older one disables them
C5_Witness ==
    /\ Done
    /\ \E a, b \in KnobEvents :
          /\ a < b
          /\ entries[a].payload = ContactRequestDisabled
          /\ entries[b].payload = ContactRequestEnabled
          /\ b = Max(KnobEvents)
    /\ contactRequestsEnabled(m)

ResetEvents ==
    {k \in Processed : entries[k].payload.type = "AccountContactRequestReferenceReset"}

\* C6: after a replay, contactRequestsSeed is the seed the newest
\* ReferenceReset event of the log carries, whatever that seed is.
C6_SeedOfNewestReset ==
    Done =>
        (ResetEvents # {} =>
            contactRequestsSeed(m) = entries[Max(ResetEvents)].payload.PublicRendezvousSeed)

----------------------------------------------------------------------------
(* Member / device registry *)

\* the places (member key, position) of the member lists that hold device d
PlacesOf(idx, d) ==
    {<<k, n>> \in UNION {{<<k2, n2>> : n2 \in 1..Len(idx.members[k2])} :
                            k2 \in DOMAIN idx.members} :
        KeyOf(idx.members[k][n].device) = d}

RegistryConsistent(idx) ==
    /\ \A k \in DOMAIN idx.members :
          /\ idx.members[k] # << >>
          /\ \A n \in 1..Len(idx.members[k]) :
                /\ KeyOf(idx.members[k][n].member) = k
                /\ KeyOf(idx.members[k][n].device) \in DOMAIN idx.devices
    /\ \A d \in DOMAIN idx.devices :
          /\ Cardinality(PlacesOf(idx, d)) = 1
          /\ \A pl \in PlacesOf(idx, d) : idx.members[pl[1]][pl[2]] = idx.devices[d]
          /\ KeyOf(idx.devices[d].device) = d

\* the step folds a GroupMemberDeviceAdded event whose device is registered
FoldsRegisteredDevice ==
    /\ pc = "loop"
    /\ i >= 1
    /\ entries[i].payload.type = "GroupMemberDeviceAdded"
    /\ KeyOf(entries[i].payload.DevicePK) \in DOMAIN m.devices

\* C7: in every state, every binding of members[k] has member key k, every
\* registered device stands in exactly one member's list, once, as the binding
\* devices[d] holds; a step that folds an event for a registered device leaves
\* both maps as they are, and no step changes the binding of a registered device.
C7_RegistryConsistent ==
    /\ []RegistryConsistent(m)
    /\ [][/\ FoldsRegisteredDevice =>
                (m'.members = m.members /\ m'.devices = m.devices)
          /\ \A d \in DOMAIN m.devices :
                d \in DOMAIN m'.devices /\ m'.devices[d] = m.devices[d]]_vars

\* a replay has returned that folded an event naming dB1 under mB while dB1 was
\* registered under mA by a newer event or an earlier replay, beside a second
\* device of mA
C7_Witness ==
    /\ Done
    /\ \E k \in 1..Len(entries) : entries[k].payload = MemberDeviceAdded("mB", "dB1")
    /\ "dB1" \in DOMAIN m.devices
    /\ m.devices["dB1"].member = "mA"
    /\ Len(m.members["mA"]) = 2

----------------------------------------------------------------------------
(* Replay as a whole *)

\* C8: when a call replays the log the previous call replayed, every query
\* returns after it what it returned before it (lists compared as collections).
C8_ReplayIdempotent ==
    (Done /\ prev.same) => QuerySurface(m) = prev.q[1]

Decodes(e) == openMetadataEntry(e, m.group).err = "nil"

\* the alias-key events the post-action of the current call finds staged
Staged ==
    {m0.eventsContactAddAliasKey[k] : k \in 1..Len(m0.eventsContactAddAliasKey)}
    \cup {entries[k].payload : k \in {x \in 1..Len(entries) :
                                         entries[x].payload.type = "ContactAliasKeyAdded"}}

\* every staged event has a registered sender and, from another member, an
\* alias key of the key size
PostActionsSucceed ==
    \A evt \in Staged :
        /\ ByteLen(evt.DevicePK) = KeySize
        /\ KeyOf(evt.DevicePK) \in DOMAIN m.devices
        /\ \/ m.devices[KeyOf(evt.DevicePK)].member = m.ownMemberDevice.member
           \/ ByteLen(evt.AliasPK) = KeySize

\* C9: a call that has returned returned success if its post-action had nothing
\* to fail on, whatever was logged for its entries; and it left the index that
\* a call from the same start leaves on the log without its undecodable entries.
C9_CorruptEntriesSkipped ==
    Done =>
        /\ PostActionsSucceed => ret = "nil"
        /\ m = UpdateIndex(m0, SelectSeq(entries, Decodes)).m

\* a replay has returned success on [MemberDeviceAdded(mA, dA1)], [malformed],
\* [MemberDeviceAdded(mB, dB1)]: the decoding error was logged and both members
\* are registered
C9_Witness ==
    /\ Done
    /\ ret = "nil"
    /\ Len(entries) = 3
    /\ entries[1].payload = MemberDeviceAdded("mA", "dA1")
    /\ entries[2].payload = Malformed
    /\ entries[3].payload = MemberDeviceAdded("mB", "dB1")
    /\ \E k \in 1..Len(logged) : logged[k].msg = "unable to open metadata entry"
    /\ listMembers(m) = {"mA", "mB"}

\* C10: between two replays, no step of a caller (a query, or a write to what a
\* query returned) changes what any query returns.
C10_NoAliasing ==
    [][(pc = "idle" /\ pc' = "idle" /\ log' = log)
          => QuerySurface(m') = QuerySurface(m)]_vars

----------------------------------------------------------------------------
(* Locking *)

\* C11: a running UpdateIndex never waits for a lease of its own lock (no
\* handler and no post-action asks for one); every call returns with the lock
\* released; and every query that waits for its lease gets it.
C11_NoSelfDeadlock ==
    /\ [](pc = "loop" => CanRun(NextCalls))
    /\ (pc = "loop") ~> (pc = "idle" /\ ~lock.writer)
    /\ \A q \in Callers : (queries[q].pc = "waiting") ~> (queries[q].pc = "reading")

\* UpdateIndex is about to run its post-action on a staged alias-key event
\* while a query waits for its lease
C11_Witness ==
    /\ pc = "loop"
    /\ i = 0
    /\ lock.writer
    /\ m.eventsContactAddAliasKey # << >>
    /\ \E q \in Callers : queries[q].pc = "waiting"

\* C12: a query reads only while no UpdateIndex call is between its start and
\* its return, and what it read is the query surface of that state: the state
\* before a call started or after it finished, never one in between.
C12_QueriesSeeWholeReplays ==
    \A q \in Callers :
        queries[q].pc = "reading" =>
            /\ pc = "idle"
            /\ ~lock.writer
            /\ queries[q].seen = <<QuerySurface(m)>>

\* a query that waited while UpdateIndex ran reads the contact, the member and
\* the alias state the finished call left
C12_Witness ==
    /\ Done
    /\ \E q \in Callers : queries[q].pc = "reading"
    /\ \E q \in Callers : queries[q].pc = "waiting"
    /\ DOMAIN m.contacts # {}
    /\ DOMAIN m.devices # {}

----------------------------------------------------------------------------
(* Alias keys *)

\* the alias-key events of the replayed log
AliasEvents ==
    {entries[k].payload : k \in {x \in 1..Len(entries) :
                                    entries[x].payload.type = "ContactAliasKeyAdded"}}

Registered(d) == ByteLen(d) = KeySize /\ KeyOf(d) \in DOMAIN m.devices

SentByOwnMember(evt) ==
    /\ Registered(evt.DevicePK)
    /\ m.devices[KeyOf(evt.DevicePK)].member = m.ownMemberDevice.member

SentByOtherMember(evt) ==
    /\ Registered(evt.DevicePK)
    /\ m.devices[KeyOf(evt.DevicePK)].member # m.ownMemberDevice.member

\* C13: after a call on a log whose alias-key events all have a registered
\* sender device, wherever in the log the events stand, ownAliasKeySent is true
\* if one of them was sent by a device of the own member, and otherAliasKey is
\* the alias key of one sent by a device of another member if there is one.
\* (Stated for logs whose alias keys all are of the key size.)
C13_AliasKeysWhateverTheOrder ==
    (/\ Done
     /\ \A evt \in AliasEvents : Registered(evt.DevicePK)
     /\ \A evt \in AliasEvents : ByteLen(evt.AliasPK) = KeySize) =>
        /\ (\E evt \in AliasEvents : SentByOwnMember(evt)) => m.ownAliasKeySent
        /\ (\E evt \in AliasEvents : SentByOtherMember(evt)) =>
               m.otherAliasKey \in {evt.AliasPK : evt \in {x \in AliasEvents :
                                                              SentByOtherMember(x)}}

\* a staged alias-key event that makes the post-action fail
FailsPostAction(evt) ==
    \/ ~Registered(evt.DevicePK)
    \/ SentByOtherMember(evt) /\ ByteLen(evt.AliasPK) # KeySize

\* C14: a call returns an internal error exactly when some staged alias-key
\* event has an unresolvable sender device or comes from another member's
\* device with an alias key not of the key size; otherwise it returns success,
\* whatever decoding and handler errors were logged.
C14_ErrorIffPostActionFails ==
    Done =>
        /\ ret \in {"nil", "ErrInternal"}
        /\ ret = "ErrInternal" <=> \E evt \in Staged : FailsPostAction(evt)

\* a call has returned the internal error for a staged alias-key event from an
\* unregistered device, with no decoding or handler error logged
C14_Witness ==
    /\ Done
    /\ ret = "ErrInternal"
    /\ logged = << >>
    /\ \E evt \in Staged : ~Registered(evt.DevicePK)

----------------------------------------------------------------------------
(* Lookup queries *)

\* the members under which device d is listed
MembersListing(d) ==
    {k \in DOMAIN m.members : \E x \in 1..Len(m.members[k]) : m.members[k][x].device = d}

\* the devices listed in some member's list
ListedDevices == {d \in LookupDevices : MembersListing(d) # {}}

\* what the lookup the caller made has to return on the index as it is
AgreesWithRegistries(r) ==
    CASE r.via = "getMemberByDevice" ->
             IF MembersListing(r.key) = {}
             THEN r.result.err = "ErrMissingInput"
             ELSE r.result.err = "nil" /\ MembersListing(r.key) = {r.result.member}
      [] r.via = "getDevicesForMember" ->
             IF r.key \notin DOMAIN m.members
             THEN r.result.err = "ErrInvalidInput"
             ELSE /\ r.result.err = "nil"
                  /\ Len(r.result.devices) = Len(m.members[r.key])
                  /\ \A x \in 1..Len(r.result.devices) :
                         r.result.devices[x] = m.members[r.key][x].device
      [] r.via = "getContact" ->
             IF r.key \notin DOMAIN m.contacts
             THEN r.result.err = "ErrMissingMapKey"
             ELSE r.result.err = "nil" /\ r.result.contact = <<m.contacts[r.key]>>
      [] r.via = "MemberCount" ->
             r.result = Cardinality({k \in DOMAIN m.members : m.members[k] # << >>})
      [] r.via = "DeviceCount" -> r.result = Cardinality(ListedDevices)

\* a step of the loop that registers a device puts it at the end of its
\* member's list and leaves the lists as they were otherwise
RegistersInOrder ==
    (pc = "loop" /\ DeviceCount(m') > DeviceCount(m)) =>
        LET p == entries[i].payload
        IN  /\ m'.members[p.MemberPK] =
                   Append(IF p.MemberPK \in DOMAIN m.members
                          THEN m.members[p.MemberPK] ELSE << >>,
                          NewMemberDevice(p.MemberPK, p.DevicePK))
            /\ \A k \in DOMAIN m.members \ {p.MemberPK} : m'.members[k] = m.members[k]

\* C15: what a lookup query returned agrees with the registries: the member
\* that lists the device or a missing-input error, the devices of the member
\* in the order they were registered or an invalid-input error, the contact
\* record or a missing-map-key error, the numbers of members and of devices;
\* and the lookup leaves the index as it was.
C15_LookupsAgreeWithRegistries ==
    /\ [](\A r \in held : AgreesWithRegistries(r))
    /\ [][RegistersInOrder]_vars
    /\ [][held' # held /\ held' # {} => m' = m]_vars

\* devicesOf(mA) has returned [dA2, dA1] on an index in which dA1 is bound to
\* mA although the log also names it under mB (member mB is unknown)
C15_Witness ==
    /\ Done
    /\ held = {[via |-> "getDevicesForMember", key |-> "mA",
                result |-> [devices |-> <<"dA2", "dA1">>, err |-> "nil"]]}
    /\ "mB" \notin DOMAIN m.members
    /\ \E k \in 1..Len(entries) : entries[k].payload = MemberDeviceAdded("mB", "dA1")

----------------------------------------------------------------------------
(* Registries across replays *)

IsPrefix(s, t) == Len(s) <= Len(t) /\ \A k \in 1..Len(s) : s[k] = t[k]

\* everything registered in idx is registered in idx2, each device under the
\* member it has in idx
Keeps(idx, idx2) ==
    /\ \A d \in DOMAIN idx.devices :
           d \in DOMAIN idx2.devices /\ idx2.devices[d] = idx.devices[d]
    /\ \A k \in DOMAIN idx.members :
           k \in DOMAIN idx2.members /\ IsPrefix(idx.members[k], idx2.members[k])
    /\ {a.raw : a \in idx.admins} \subseteq {a.raw : a \in idx2.admins}
    /\ \A a \in DOMAIN listAdmins(idx) : listAdmins(idx)[a] <= listAdmins(idx2)[a]
    /\ idx.sentSecrets \subseteq idx2.sentSecrets

\* C16: no step of any call, whatever log it replays, removes a member, a
\* device, an admin or a secret-sent mark, or binds a device to another
\* member: what is registered after one call is registered after the next.
C16_RegistriesOnlyGrow == [][Keeps(m, m')]_vars

\* a call on an empty log has returned, and the index still holds the device,
\* the admin and the secret-sent mark that an earlier log registered
C16_Witness ==
    /\ Done
    /\ entries = << >>
    /\ m.devices = ("dA1" :> NewMemberDevice("mA", "dA1"))
    /\ m.admins # {}
    /\ m.sentSecrets = {"mB"}

----------------------------------------------------------------------------
(* Contacts and the group type, contacts and the secret store *)

\* C17: in a group that is not of type Account a call leaves no contact
\* record: listContacts is empty and getContact fails for every key.
C17_NoContactOutsideAccount ==
    (Done /\ m.group.GroupType # "Account") =>
        /\ DOMAIN listContacts(m) = {}
        /\ \A pk \in {"c1", "c2"} : getContact(m, pk).err # "nil"

\* C18: after a call every record of contacts is the record stored in
\* contactsFromGroupPK under the group key the secret store derives for the
\* contact, and contactsFromGroupPK holds no other record; also when the
\* secret store fails for some contact.
C18_ReverseIndexConsistent ==
    Done =>
        /\ \A k \in DOMAIN m.contacts :
               /\ ContactGroupPK(k) \in DOMAIN m.contactsFromGroupPK
               /\ m.contactsFromGroupPK[ContactGroupPK(k)] = k
        /\ \A g \in DOMAIN m.contactsFromGroupPK :
               m.contactsFromGroupPK[g] \in DOMAIN m.contacts

----------------------------------------------------------------------------
(* Admins, handled events *)

\* C19: the admin set never holds a member public key twice: listAdmins
\* returns each key at most once, after any events and any replays.
C19_NoDuplicateAdmin ==
    \A a \in DOMAIN listAdmins(m) : listAdmins(m)[a] <= 1

\* C20: when a call has returned, the handled-events set is the set of the
\* hashes of the entries of the replayed log that decode: those without a
\* handler and those whose handler failed included, the undecodable ones and
\* those of earlier logs excluded.
C20_HandledAreTheDecodable ==
    Done =>
        m.handledEvents = {entries[k].hash : k \in {x \in 1..Len(entries) :
                                                       Decodes(entries[x])}}

\* a call has returned on a log of an entry without handler, an undecodable
\* entry and an entry whose handler fails, after a call on another log had
\* marked an entry handled
C20_Witness ==
    /\ Done
    /\ Len(entries) = 3
    /\ {entries[k].payload : k \in 1..3} =
           {GroupReplicating, Malformed, MemberDeviceAdded("mA", "short")}
    /\ Cardinality(m.handledEvents) = 2
    /\ "dA1" \in DOMAIN m.devices

\* C21 as claimed: when a call has returned, the hash of every entry of the
\* replayed log that failed to decode is in the handled-events set.
C21_UndecodableMarkedHandled ==
    Done =>
        \A k \in 1..Len(entries) :
            ~Decodes(entries[k]) => entries[k].hash \in m.handledEvents

\* C21: an entry that fails to decode is logged and skipped without being
\* marked handled: when the call has returned, the decoding error has been
\* logged for the entry and its hash is not in the handled-events set.
C21_UndecodableLoggedNotHandled ==
    Done =>
        \A k \in 1..Len(entries) :
            ~Decodes(entries[k]) =>
                /\ entries[k].hash \notin m.handledEvents
                /\ \E n \in 1..Len(logged) :
                       /\ logged[n].entry = entries[k].hash
                       /\ logged[n].msg = "unable to open metadata entry"

\* a call has returned on a log of an undecodable entry between two entries
\* whose handler failed: three errors were logged and the two entries that
\* decoded are the handled ones
C21_Witness ==
    /\ Done
    /\ Len(entries) = 3
    /\ entries[1].payload = MemberDeviceAdded("mA", "short")
    /\ entries[2].payload = Malformed
    /\ entries[3].payload = MemberDeviceAdded("mA", "short")
    /\ Len(logged) = 3
    /\ m.handledEvents = {entries[1].hash, entries[3].hash}

----------------------------------------------------------------------------
(* Leaving a group and joining it again *)

\* the groups whose log holds a leave event that is older than a join event
LeftThenJoined ==
    {g \in GroupPKs : \E a, b \in RosterEventsOf(g) :
                          /\ a < b
                          /\ entries[a].payload.type = "AccountGroupLeft"
                          /\ entries[b].payload.type = "AccountGroupJoined"}

\* C22 as claimed: after a call on a log in which a leave event of group g is
\* older than a join event of g, the roster records g as Left.
C22_RejoinedIsLeft ==
    Done => \A g \in LeftThenJoined : m.groups[KeyOf(g)].state = "Left"

\* C22: after a call on a log in which the user left group g and then joined
\* it again (the join is the newest roster event of g), the roster records g
\* as Joined, with the group descriptor of that join: the older leave event is
\* the one that is ignored.
C22_RejoinedIsJoined ==
    Done =>
        \A g \in LeftThenJoined :
            entries[Max(RosterEventsOf(g))].payload.type = "AccountGroupJoined" =>
                /\ KeyOf(g) \in DOMAIN m.groups
                /\ m.groups[KeyOf(g)] =
                       [group |-> entries[Max(RosterEventsOf(g))].payload.Group,
                        state |-> "Joined"]

\* a call has returned on the log [left g1, joined g1, left g2]: g1 is Joined
\* and g2 is Left
C22_Witness ==
    /\ Done
    /\ Len(entries) = 3
    /\ entries[1].payload = GroupLeft("g1")
    /\ entries[2].payload = GroupJoined("g1")
    /\ entries[3].payload = GroupLeft("g2")
    /\ m.groups["g1"].state = "Joined"
    /\ m.groups["g2"].state = "Left"

----------------------------------------------------------------------------
(* Several alias keys of other members in one replay *)

\* the places in the replayed log of the alias-key events sent by a registered
\* device of another member
ForeignAliasEvents ==
    {k \in 1..Len(entries) : /\ entries[k].payload.type = "ContactAliasKeyAdded"
                             /\ SentByOtherMember(entries[k].payload)}

Min(S) == CHOOSE x \in S : \A y \in S : x <= y

\* C23: after a call on a log with several alias-key events sent by devices of
\* other members, otherAliasKey is the alias key of the oldest of them in log
\* order, the last one the post-action processes. (Stated for logs whose
\* alias-key events all have a registered sender and a key of the key size.)
C23_OldestForeignAliasKeyWins ==
    (/\ Done
     /\ \A evt \in AliasEvents : Registered(evt.DevicePK)
     /\ \A evt \in AliasEvents : ByteLen(evt.AliasPK) = KeySize
     /\ Cardinality(ForeignAliasEvents) >= 2) =>
        m.otherAliasKey = entries[Min(ForeignAliasEvents)].payload.AliasPK

----------------------------------------------------------------------------
(* Events whose handler is empty *)

EmptyHandlerTypes == {"MultiMemberGroupAdminRoleGranted", "GroupMetadataPayloadSent"}

\* the running call is about to fold an entry of type t
Folding(t) == pc = "loop" /\ i >= 1 /\ entries[i].payload.type = t

\* C24: the step of a replay that folds a MultiMemberGroupAdminRoleGranted or a
\* GroupMetadataPayloadSent event logs no error and changes nothing of the
\* index but the handled-events set, which gains the entry's hash; and the
\* admin set changes only in a step that folds a
\* MultiMemberGroupInitialMemberAnnounced event.
C24_EmptyHandlersChangeNothing ==
    [][/\ (\E t \in EmptyHandlerTypes : Folding(t)) =>
              /\ m' = [m EXCEPT !.handledEvents = @ \cup {entries[i].hash}]
              /\ logged' = logged
       /\ m'.admins # m.admins => Folding("MultiMemberGroupInitialMemberAnnounced")]_vars

\* a call has returned on the log [initial member mA announced, admin role
\* granted to mB, payload sent]: the three entries are handled, no error was
\* logged, and mA is the only admin
C24_Witness ==
    /\ Done
    /\ Len(entries) = 3
    /\ entries[1].payload = InitialMemberAnnounced("mA")
    /\ entries[2].payload = AdminRoleGranted("dA1", "mB")
    /\ entries[3].payload = MetadataPayloadSent("dA1")
    /\ m.handledEvents = {entries[k].hash : k \in 1..3}
    /\ logged = << >>
    /\ DOMAIN listAdmins(m) = {"mA"}

----------------------------------------------------------------------------
(* Secrets sent *)

\* the step folds a chain-key event whose two keys parse, sent by the own
\* device to member pk
FoldsOwnChainKeyFor(pk) ==
    /\ Folding("GroupDeviceChainKeyAdded")
    /\ i' = i - 1
    /\ ~UnmarshalFails(entries[i].payload.DevicePK)
    /\ ~UnmarshalFails(entries[i].payload.DestMemberPK)
    /\ entries[i].payload.DevicePK = m.ownMemberDevice.device
    /\ entries[i].payload.DestMemberPK = pk

\* C25: areSecretsAlreadySent(pk) is false on a new index, and after any step
\* it is true exactly if it was true before the step or the step folds a
\* well-formed chain-key event sent by the own device to member pk: events of
\* other devices never set it, and nothing ever clears it.
C25_SecretsSentByOwnDeviceOnly ==
    /\ \A pk \in MemberPKs : ~areSecretsAlreadySent(m, pk)
    /\ [][\A pk \in MemberPKs :
              areSecretsAlreadySent(m', pk)
                  <=> (areSecretsAlreadySent(m, pk) \/ FoldsOwnChainKeyFor(pk))]_vars

\* a call has returned on a log that holds only a chain-key event sent to mB
\* by dB1, a registered device of another member: secrets count as sent to mA,
\* from an event of an earlier log, and not to mB
C25_Witness ==
    /\ Done
    /\ Len(entries) = 1
    /\ entries[1].payload = DeviceChainKeyAdded("dB1", "mB")
    /\ "dB1" \in DOMAIN m.devices
    /\ areSecretsAlreadySent(m, "mA")
    /\ ~areSecretsAlreadySent(m, "mB")

----------------------------------------------------------------------------
(* Per-replay state *)

\* what the queries on the per-replay structures return, and the roster
PerReplaySurface(idx) ==
    [listContacts |-> listContacts(idx),
     groups |-> idx.groups,
     listServiceTokens |-> listServiceTokens(idx),
     contactRequestsEnabled |-> contactRequestsEnabled(idx),
     contactRequestsSeed |-> contactRequestsSeed(idx),
     listVerifiedCredentials |-> listVerifiedCredentials(idx)]

\* the entries of the replayed log of type t
EntriesOfType(t) == {k \in 1..Len(entries) : entries[k].payload.type = t}

\* C26: when a call has returned, the queries on the per-replay structures
\* return what they return on a new index of the same group, member, device
\* and secret store after one call on the same log, whatever logs the index
\* replayed before; a contact, group or token without an event in the log is
\* absent; and the credentials are listed once per credential event of the log.
C26_PerReplayStateOfLatestLog ==
    Done =>
        /\ PerReplaySurface(m) =
               PerReplaySurface(
                   UpdateIndex(newMetadataIndex(m.group, m.ownMemberDevice, m.secretStore),
                               entries).m)
        /\ DOMAIN m.contacts # {} =>
               EntriesOfType("AccountContactRequestOutgoingSent") # {}
        /\ DOMAIN m.groups # {} => EntriesOfType("AccountGroupJoined") # {}
        /\ listServiceTokens(m) # {} => EntriesOfType("AccountServiceTokenAdded") # {}
        /\ contactRequestsEnabled(m) => EntriesOfType("AccountContactRequestEnabled") # {}
        /\ contactRequestsSeed(m) # NilBytes =>
               EntriesOfType("AccountContactRequestReferenceReset") # {}
        /\ Len(listVerifiedCredentials(m)) =
               Cardinality(EntriesOfType("AccountVerifiedCredentialRegistered"))

\* a call has returned on a second log, which registers the same credential
\* twice, after a call on a first log (every event of the model leaves a
\* contact, a group, a token, a knob, a seed or a credential): the credential
\* is listed twice and nothing else is left
C26_Witness ==
    /\ Done
    /\ logID = 1
    /\ Len(entries) = 2
    /\ \A k \in 1..2 : entries[k].payload = VerifiedCredentialRegistered("v1")
    /\ listVerifiedCredentials(m) =
           <<VerifiedCredentialRegistered("v1"), VerifiedCredentialRegistered("v1")>>
    /\ DOMAIN listContacts(m) = {}
    /\ DOMAIN m.groups = {}
    /\ listServiceTokens(m) = {}
    /\ ~contactRequestsEnabled(m)
    /\ contactRequestsSeed(m) = NilBytes

----------------------------------------------------------------------------
(* Events that lack a required field *)

\* the running call is about to fold an event of the right type for its tag
\* that lacks its contact or its group descriptor
FoldingWithoutRequiredField ==
    \/ Folding("AccountContactRequestOutgoingEnqueued")
           /\ entries[i].payload.Contact = << >>
    \/ Folding("AccountGroupJoined") /\ entries[i].payload.Group = << >>

\* C27: the step of a replay that folds an event lacking a required field logs
\* the handler's invalid-input error, changes nothing of the index but the
\* handled-events set, and leaves the call in its loop, at the next entry.
C27_MissingFieldIsInvalidInput ==
    [][FoldingWithoutRequiredField =>
           /\ logged' = logged \o Logged(entries[i], "unable to handle event",
                                         "ErrInvalidInput")
           /\ m' = [m EXCEPT !.handledEvents = @ \cup {entries[i].hash}]
           /\ pc' = "loop"
           /\ i' = i - 1]_vars

----------------------------------------------------------------------------
(* The staging queue at the return *)

\* C28: when a call has returned, with success or with an error, the alias-key
\* staging queue is empty.
C28_QueueEmptyAtReturn ==
    Done => m.eventsContactAddAliasKey = << >>

====
